---- MODULE Spec2Model ----
(***************************************************************************)
(* Streaming chat session of the AryaXAI agent front end                   *)
(* (src/components/ChatInterface.tsx, src/components/ChatMessage.tsx).     *)
(*                                                                         *)
(* Strings are sequences of one-character strings, so that startsWith,     *)
(* substring, trim and concatenation are computed as the code computes     *)
(* them.  Every handler of the component is one atomic action (the event   *)
(* loop runs a handler to completion and React applies its batched state   *)
(* updates before the next event).                                         *)
(***************************************************************************)
EXTENDS Bags, FiniteSets, Integers, Sequences, TLC

(***************************************************************************)
(* Bounds of the exploration.                                              *)
(***************************************************************************)
MaxTurns == 3

MaxSockets == 3

MaxFrames == 2

MaxStreamFrames == 3

MaxReviews == 1

\* edits of the token input
MaxEdits == 3

\* picks made in the Selects of the scope panel
MaxSelections == 3

\* fetches of the scope panel that may be waiting when the user makes an input
MaxInFlight == 1

(***************************************************************************)
(* State.                                                                  *)
(***************************************************************************)
VARIABLES
  mounted,             \* the mount effect has run
  messages,            \* useState: the message list
  inputValue,          \* useState: the prompt text
  isLoading,           \* useState
  streamingMessage,    \* useState: <<>> is null, <<m>> is the draft m
  streamingReasoning,  \* useState
  isReasoningActive,   \* useState
  showReasoningBox,    \* useState
  currentSessionId,    \* useState: Null or a string
  showReviewModal,     \* useState
  wsConnected,         \* useState: the health flag
  wsRef,               \* useRef: 0 is null, otherwise the index of a socket
  sockets,             \* every WebSocket created so far
  timers,              \* pending 100 ms timeouts, in the order they were set
  clock,               \* Date.now(), advanced by every turn
  sent,                \* history: the payloads given to send()
  turnSock,            \* history: the socket of the latest turn, 0 if none
  nFrames,             \* history: number of frames handled
  lastOp,              \* history: the handler that ran last
  review,              \* SessionReviewModal useState: the review text
  sessionLike,         \* SessionReviewModal useState: "null", "true" or "false"
  isSubmitting,        \* SessionReviewModal useState
  submitted,           \* SessionReviewModal useState
  reviewCalls,         \* the calls of handleSubmitReview waiting for a fetch
  closeTimers,         \* pending 2 s timeouts of handleSubmitReview
  posted,              \* history: the requests given to fetch()
  reviewLog,           \* history: the calls of handleSubmitReview that returned
  token,               \* Home useState
  verified,            \* Home useState
  organization,        \* Home useState
  workspace,           \* Home useState
  project,             \* Home useState
  verificationMsg,     \* AuthPanel useState: "", "verified", "failed" or "connection"
  organizations,       \* AuthPanel useState: the candidate list
  workspaces,          \* AuthPanel useState: the candidate list
  projects,            \* AuthPanel useState: the candidate list
  panelLoading,        \* AuthPanel useState: loading
  isVerifying,         \* AuthPanel useState
  showOrgWarning,      \* AuthPanel useState
  showWorkspaceWarning, \* AuthPanel useState
  showProjectWarning,  \* AuthPanel useState
  orgsFetched,         \* AuthPanel useState
  workspacesFetched,   \* AuthPanel useState
  projectsFetched,     \* AuthPanel useState
  debounceTimerRef,    \* AuthPanel useRef: 0 is null, otherwise a timer id
  pendingTimers,       \* the 800 ms timeouts that are armed: [id, token]
  requests,            \* the fetches of AuthPanel that wait for their response (a bag)
  armed,               \* history: number of timeouts armed so far
  edits,               \* history: number of edits of the token input
  selections,          \* history: number of picks made in the Selects
  verifiedToken,       \* history: the token of the latest /verify-token that answered ok
  sessionDetails       \* history: the props ChatInterface was constructed with

vars ==
  << mounted, messages, inputValue, isLoading, streamingMessage, streamingReasoning,
     isReasoningActive, showReasoningBox, currentSessionId, showReviewModal,
     wsConnected, wsRef, sockets, timers, clock, sent, turnSock, nFrames, lastOp,
     review, sessionLike, isSubmitting, submitted, reviewCalls, closeTimers, posted,
     reviewLog, token, verified, organization, workspace, project, verificationMsg,
     organizations, workspaces, projects, panelLoading, isVerifying, showOrgWarning,
     showWorkspaceWarning, showProjectWarning, orgsFetched, workspacesFetched,
     projectsFetched, debounceTimerRef, pendingTimers, requests, armed, edits,
     selections, verifiedToken, sessionDetails >>

modalVars ==
  << review, sessionLike, isSubmitting, submitted, reviewCalls, closeTimers, posted,
     reviewLog >>

uiVars ==
  << messages, inputValue, isLoading, streamingMessage, streamingReasoning,
     isReasoningActive, showReasoningBox, currentSessionId, showReviewModal >>

\* the state of Home and AuthPanel and of the timers and fetches of AuthPanel
scopeVars ==
  << token, verified, organization, workspace, project, verificationMsg, organizations,
     workspaces, projects, panelLoading, isVerifying, showOrgWarning, showWorkspaceWarning,
     showProjectWarning, orgsFetched, workspacesFetched, projectsFetched,
     debounceTimerRef, pendingTimers, requests, armed, edits, selections,
     verifiedToken >>

\* what the handlers of ChatInterface and SessionReviewModal leave alone
appVars == << scopeVars, sessionDetails >>

\* the state of ChatInterface and its sockets
chatVars ==
  << mounted, uiVars, wsConnected, wsRef, sockets, timers, clock, sent, turnSock,
     nFrames >>

(***************************************************************************)
(* JavaScript values.                                                      *)
(***************************************************************************)
\* the value undefined of an optional string field
Undefined == <<"undefined">>

\* the value null of a string-or-null state (currentSessionId)
Null == <<"null">>

\* the JSON-side values: null, undefined, numbers and objects
JsNull == [t |-> "null", v |-> <<>>]

JsUndefined == [t |-> "undefined", v |-> <<>>]

Digits == {"0", "1", "2", "3", "4", "5", "6", "7", "8", "9"}

Whitespace == {" "}

\* String.prototype.startsWith
StartsWith(s, p) == Len(s) >= Len(p) /\ SubSeq(s, 1, Len(p)) = p

\* String.prototype.substring(n)
Substring(s, n) == SubSeq(s, n + 1, Len(s))

RECURSIVE TrimStart(_)
TrimStart(s) == IF s # <<>> /\ Head(s) \in Whitespace THEN TrimStart(Tail(s)) ELSE s

RECURSIVE TrimEnd(_)
TrimEnd(s) ==
  IF s # <<>> /\ s[Len(s)] \in Whitespace THEN TrimEnd(SubSeq(s, 1, Len(s) - 1)) ELSE s

\* String.prototype.trim
Trim(s) == TrimEnd(TrimStart(s))

\* JSON.parse on the payloads the model feeds it: surrounding white space is
\* skipped, a run of digits is a number, {} is an object, null is null and
\* anything else throws (ok = FALSE)
JSONParse(s) ==
  LET body == Trim(s)
  IN IF body # <<>> /\ \A i \in 1..Len(body) : body[i] \in Digits
       THEN [ok |-> TRUE, val |-> [t |-> "number", v |-> body]]
     ELSE IF body = <<"{", "}">>
       THEN [ok |-> TRUE, val |-> [t |-> "object", v |-> <<>>]]
     ELSE IF body = <<"n", "u", "l", "l">>
       THEN [ok |-> TRUE, val |-> JsNull]
     ELSE [ok |-> FALSE, val |-> JsUndefined]

(***************************************************************************)
(* The tags of the inbound protocol, as handleMessage spells them.         *)
(***************************************************************************)
TagDone == <<"[", "D", "O", "N", "E", "]">>

TagError == <<"[", "E", "R", "R", "O", "R", "]">>

TagMetadata == <<"[", "M", "E", "T", "A", "D", "A", "T", "A", "]">>

TagScratchpad == <<"[", "S", "C", "R", "A", "T", "C", "H", "P", "A", "D", "]">>

TagToolResponse == <<"[", "T", "O", "O", "L", "R", "E", "S", "P", "O", "N", "S", "E", "]">>

TagSessionId == <<"[", "S", "E", "S", "S", "I", "O", "N", "_", "I", "D", "]">>

TagReasoning == <<"[", "R", "E", "A", "S", "O", "N", "I", "N", "G", "]">>

TagReasoningDone ==
  <<"[", "R", "E", "A", "S", "O", "N", "I", "N", "G", "_", "D", "O", "N", "E", "]">>

ErrorPrefix == <<"E", "r", "r", "o", "r", ":", " ">>

ErrorMark == <<"E", "r", "r", "o", "r", ":">>

ConnectionErrorText ==
  <<"C", "o", "n", "n", "e", "c", "t", "i", "o", "n", " ", "e", "r", "r", "o", "r", " ",
    "o", "c", "c", "u", "r", "r", "e", "d">>

(***************************************************************************)
(* Inputs: the frames the server may send and the texts the user may type. *)
(***************************************************************************)
\* frames delivered in the session-level specification: one per branch of
\* handleMessage
CoreFrames ==
  { TagDone,
    TagError \o <<"e">>,
    TagMetadata \o <<"1">>,
    TagSessionId \o <<"s">>,
    TagReasoning \o <<"r">>,
    TagReasoningDone,
    <<"a">> }

\* further frames of the decoder-level specification: second values of each
\* channel, the other two JSON channels, payloads that do not parse, and
\* frames that merely begin with a sentinel
EdgeFrames ==
  { TagDone \o <<"a">>,
    TagReasoningDone \o <<"a">>,
    TagError,
    TagMetadata \o <<" ", "{", "}">>,
    TagMetadata \o <<"{">>,
    TagScratchpad \o <<"2">>,
    TagScratchpad,
    TagToolResponse \o <<"3">>,
    TagToolResponse \o <<"x">>,
    TagSessionId \o <<"t">>,
    TagReasoning \o <<"q">>,
    <<"b", " ">> }

AllFrames == CoreFrames \cup EdgeFrames

\* frames delivered in the accumulator-level specification: one per branch
\* that writes an accumulator, a payload that does not parse for each JSON
\* channel, and [DONE]
DecodeFrames ==
  { TagDone,
    TagError \o <<"e">>,
    TagMetadata \o <<"1">>,
    TagMetadata \o <<"{">>,
    TagScratchpad,
    TagToolResponse \o <<"x">>,
    TagSessionId \o <<"s">>,
    TagReasoning \o <<"r">>,
    <<"a">> }

\* frames delivered in the reset-level specification: those that fill the
\* message list, the streaming draft and the reasoning draft
ResetFrames == { TagDone, TagReasoning \o <<"r">>, <<"a">> }

\* frames delivered in the review-level specification: the one that gives
\* the session its id
ReviewFrames == { TagSessionId \o <<"s">> }

\* texts typed into the prompt input: a query and a blank text
Queries == { <<"h", "i">>, <<" ">> }

(***************************************************************************)
(* The rule handleMessage applies to a frame: the branch of its if-chain   *)
(* that is taken.                                                          *)
(***************************************************************************)
\* the slip of testing the [DONE] sentinel as a prefix like the other tags
Classify_DonePrefix(result) ==
  IF StartsWith(result, TagDone) THEN "StreamComplete"
  ELSE IF StartsWith(result, TagError) THEN "StreamError"
  ELSE IF StartsWith(result, TagMetadata) THEN "MetadataReceived"
  ELSE IF StartsWith(result, TagScratchpad) THEN "ScratchpadReceived"
  ELSE IF StartsWith(result, TagToolResponse) THEN "ToolResponseReceived"
  ELSE IF StartsWith(result, TagSessionId) THEN "SessionIdReceived"
  ELSE IF StartsWith(result, TagReasoning) THEN "ReasoningChunk"
  ELSE IF result = TagReasoningDone THEN "ReasoningComplete"
  ELSE "ContentChunk"

Classify(result) ==
  IF result = TagDone THEN "StreamComplete"
  ELSE IF StartsWith(result, TagError) THEN "StreamError"
  ELSE IF StartsWith(result, TagMetadata) THEN "MetadataReceived"
  ELSE IF StartsWith(result, TagScratchpad) THEN "ScratchpadReceived"
  ELSE IF StartsWith(result, TagToolResponse) THEN "ToolResponseReceived"
  ELSE IF StartsWith(result, TagSessionId) THEN "SessionIdReceived"
  ELSE IF StartsWith(result, TagReasoning) THEN "ReasoningChunk"
  ELSE IF result = TagReasoningDone THEN "ReasoningComplete"
  ELSE "ContentChunk"

(***************************************************************************)
(* Messages.  A field the code leaves out of an object literal is          *)
(* undefined.                                                              *)
(***************************************************************************)
UserMessage(userQuery, now) ==
  [ id |-> <<"user", now>>, role |-> "user", content |-> userQuery,
    reasoning |-> Undefined, userQuery |-> Undefined, sessionId |-> Undefined,
    metadata |-> JsUndefined, scratchpad |-> JsUndefined, tool_response |-> JsUndefined ]

\* the object built in the [DONE] branch from the closure h
AssistantMessage(h) ==
  [ id |-> h.assistantMessageId, role |-> "assistant", content |-> h.fullResponse,
    reasoning |-> h.fullReasoning, userQuery |-> h.userQuery, sessionId |-> h.sessionId,
    metadata |-> h.metadata, scratchpad |-> h.scratchpad, tool_response |-> h.toolResponse ]

\* the object built in the [ERROR] branch
ErrorDraft(h, content) ==
  [ id |-> h.assistantMessageId, role |-> "assistant", content |-> content,
    reasoning |-> Undefined, userQuery |-> h.userQuery, sessionId |-> Undefined,
    metadata |-> JsUndefined, scratchpad |-> JsUndefined, tool_response |-> JsUndefined ]

\* the slip of building the draft like the error object, without the
\* reasoning of the turn
StreamingDraft_NoReasoning(h, content) ==
  [ id |-> h.assistantMessageId, role |-> "assistant", content |-> content,
    reasoning |-> Undefined, userQuery |-> h.userQuery, sessionId |-> Undefined,
    metadata |-> JsUndefined, scratchpad |-> JsUndefined, tool_response |-> JsUndefined ]

\* the object built on a content frame
StreamingDraft(h, content) ==
  [ id |-> h.assistantMessageId, role |-> "assistant", content |-> content,
    reasoning |-> h.fullReasoning, userQuery |-> h.userQuery, sessionId |-> Undefined,
    metadata |-> JsUndefined, scratchpad |-> JsUndefined, tool_response |-> JsUndefined ]

\* the slip of keeping the side-channel accumulators outside the turn, so
\* that a turn starts from those of the turn before on the same socket
NewClosure_Hoisted(userQuery, now) ==
  [ userQuery |-> userQuery, fullResponse |-> <<>>, fullReasoning |-> <<>>,
    metadata |-> JsNull, scratchpad |-> JsNull, toolResponse |-> JsNull,
    sessionId |-> IF sockets[wsRef].onmessage = <<>> THEN <<>>
                  ELSE sockets[wsRef].onmessage[1].sessionId,
    assistantMessageId |-> <<"assistant", now>>, log |-> <<>> ]

\* the closure variables sendMessageToWebSocket declares for one turn; log
\* is the history of the frames its handleMessage has been called with
NewClosure(userQuery, now) ==
  [ userQuery |-> userQuery, fullResponse |-> <<>>, fullReasoning |-> <<>>,
    metadata |-> JsNull, scratchpad |-> JsNull, toolResponse |-> JsNull,
    sessionId |-> <<>>, assistantMessageId |-> <<"assistant", now>>, log |-> <<>> ]

\* ChatMessage: isError
IsError(message) ==
  StartsWith(message.content, ErrorMark) \/ message.content = ConnectionErrorText

\* ChatMessage: the like/dislike controls are rendered on a message
FeedbackControlsShown(message, isLastMessage, isStreaming) ==
  /\ message.role # "user"
  /\ isLastMessage
  /\ ~isStreaming
  /\ message.sessionId # Undefined
  /\ message.sessionId # <<>>
  /\ ~IsError(message)

\* ChatMessage: the retry button is rendered on a message of the list
RetryButtonShown(message) ==
  /\ message.role # "user"
  /\ IsError(message)
  /\ message.userQuery # Undefined
  /\ message.userQuery # <<>>

(***************************************************************************)
(* Initial state and history records.                                      *)
(***************************************************************************)
Op(op, q, frame, event) ==
  [op |-> op, q |-> q, frame |-> frame, event |-> event, sock |-> 0, loading |-> FALSE]

NoHandler == <<>>

NewSocket == [readyState |-> "CONNECTING", onmessage |-> NoHandler]

\* the details of the payload of sendMessageToWebSocket: the props of
\* ChatInterface, which Home passes from its state
Details ==
  [organization |-> organization, workspace |-> workspace, project |-> project,
   token |-> token]

Init ==
  /\ mounted = FALSE
  /\ messages = <<>>
  /\ inputValue = <<>>
  /\ isLoading = FALSE
  /\ streamingMessage = <<>>
  /\ streamingReasoning = <<>>
  /\ isReasoningActive = FALSE
  /\ showReasoningBox = FALSE
  /\ currentSessionId = Null
  /\ showReviewModal = FALSE
  /\ wsConnected = FALSE
  /\ wsRef = 0
  /\ sockets = <<>>
  /\ timers = <<>>
  /\ clock = 0
  /\ sent = <<>>
  /\ turnSock = 0
  /\ nFrames = 0
  /\ lastOp = Op("init", <<>>, <<>>, "")
  /\ review = <<>>
  /\ sessionLike = "null"
  /\ isSubmitting = FALSE
  /\ submitted = FALSE
  /\ reviewCalls = <<>>
  /\ closeTimers = 0
  /\ posted = <<>>
  /\ reviewLog = <<>>
  /\ token = ""
  /\ verified = FALSE
  /\ organization = ""
  /\ workspace = ""
  /\ project = ""
  /\ verificationMsg = ""
  /\ organizations = <<>>
  /\ workspaces = <<>>
  /\ projects = <<>>
  /\ panelLoading = FALSE
  /\ isVerifying = FALSE
  /\ showOrgWarning = FALSE
  /\ showWorkspaceWarning = FALSE
  /\ showProjectWarning = FALSE
  /\ orgsFetched = FALSE
  /\ workspacesFetched = FALSE
  /\ projectsFetched = FALSE
  /\ debounceTimerRef = 0
  /\ pendingTimers = {}
  /\ requests = EmptyBag
  /\ armed = 0
  /\ edits = 0
  /\ selections = 0
  /\ verifiedToken = ""
  /\ sessionDetails = Details

(***************************************************************************)
(* handleMessage: what each branch does to the closure of its turn.        *)
(***************************************************************************)
\* [ERROR]: fullResponse = `Error: ${result.substring(7)}`
OnError(h, result) == [h EXCEPT !.fullResponse = ErrorPrefix \o Substring(result, 7)]

\* the slip of catching the throw of JSON.parse and clearing the channel
OnMetadata_Reset(h, result) ==
  LET parsed == JSONParse(Substring(result, 10))
  IN IF parsed.ok THEN [h EXCEPT !.metadata = parsed.val] ELSE [h EXCEPT !.metadata = JsNull]

\* [METADATA]: metadata = JSON.parse(result.substring(10)); a throw leaves
\* the closure as it was
OnMetadata(h, result) ==
  LET parsed == JSONParse(Substring(result, 10))
  IN IF parsed.ok THEN [h EXCEPT !.metadata = parsed.val] ELSE h

\* [SCRATCHPAD]: scratchpad = JSON.parse(result.substring(12))
OnScratchpad(h, result) ==
  LET parsed == JSONParse(Substring(result, 12))
  IN IF parsed.ok THEN [h EXCEPT !.scratchpad = parsed.val] ELSE h

\* [TOOLRESPONSE]: toolResponse = JSON.parse(result.substring(14))
OnToolResponse(h, result) ==
  LET parsed == JSONParse(Substring(result, 14))
  IN IF parsed.ok THEN [h EXCEPT !.toolResponse = parsed.val] ELSE h

\* [SESSION_ID]: sessionId = result.substring(12)
OnSessionId(h, result) == [h EXCEPT !.sessionId = Substring(result, 12)]

\* the slip of extending the displayed reasoning draft instead of the
\* accumulator of the turn
OnReasoning_Shared(h, result) ==
  [h EXCEPT !.fullReasoning = streamingReasoning \o Substring(result, 11)]

\* [REASONING]: fullReasoning += result.substring(11)
OnReasoning(h, result) == [h EXCEPT !.fullReasoning = @ \o Substring(result, 11)]

\* the slip of joining content frames with a blank
OnContent_Separated(h, result) ==
  [h EXCEPT !.fullResponse = IF @ = <<>> THEN result ELSE @ \o <<" ">> \o result]

\* fallthrough: fullResponse += result
OnContent(h, result) == [h EXCEPT !.fullResponse = @ \o result]

\* the closure after handleMessage(result)
Reduce(h, result) ==
  LET e == Classify(result)
      g == [h EXCEPT !.log = Append(@, result)]
  IN CASE e = "StreamError" -> OnError(g, result)
       [] e = "MetadataReceived" -> OnMetadata(g, result)
       [] e = "ScratchpadReceived" -> OnScratchpad(g, result)
       [] e = "ToolResponseReceived" -> OnToolResponse(g, result)
       [] e = "SessionIdReceived" -> OnSessionId(g, result)
       [] e = "ReasoningChunk" -> OnReasoning(g, result)
       [] e = "ContentChunk" -> OnContent(g, result)
       [] OTHER -> g

\* the message list after handleMessage(result): only [DONE] appends
MessagesAfter(h, result) ==
  IF Classify(result) = "StreamComplete" THEN Append(messages, AssistantMessage(h))
  ELSE messages

\* the streaming draft after handleMessage(result)
DraftAfter(h, result) ==
  LET e == Classify(result)
  IN IF e = "StreamComplete" THEN <<>>
     ELSE IF e = "StreamError" THEN << ErrorDraft(h, OnError(h, result).fullResponse) >>
     ELSE IF e = "ContentChunk" THEN << StreamingDraft(h, OnContent(h, result).fullResponse) >>
     ELSE streamingMessage

\* isLoading after handleMessage(result)
LoadingAfter(result) ==
  IF Classify(result) \in {"StreamComplete", "StreamError"} THEN FALSE ELSE isLoading

\* isReasoningActive after handleMessage(result)
ReasoningActiveAfter(result) ==
  LET e == Classify(result)
  IN IF e \in {"StreamComplete", "StreamError", "ReasoningComplete"} THEN FALSE
     ELSE IF e = "ReasoningChunk" THEN TRUE
     ELSE isReasoningActive

\* showReasoningBox after handleMessage(result)
ShowReasoningBoxAfter(result) ==
  LET e == Classify(result)
  IN IF e \in {"StreamComplete", "StreamError"} THEN FALSE
     ELSE IF e = "ReasoningChunk" THEN TRUE
     ELSE showReasoningBox

\* streamingReasoning after handleMessage(result)
StreamingReasoningAfter(h, result) ==
  LET e == Classify(result)
  IN IF e = "StreamComplete" THEN <<>>
     ELSE IF e = "ReasoningChunk" THEN OnReasoning(h, result).fullReasoning
     ELSE streamingReasoning

\* currentSessionId after handleMessage(result)
CurrentSessionIdAfter(h, result) ==
  IF Classify(result) = "SessionIdReceived" THEN OnSessionId(h, result).sessionId
  ELSE currentSessionId

\* a message event of socket s carrying the frame result: the handler
\* installed as s.onmessage runs.  The browser dispatches message events
\* only while the socket is OPEN.
HandleMessage(s, result) ==
  /\ UNCHANGED modalVars
  /\ UNCHANGED appVars
  /\ sockets[s].readyState = "OPEN"
  /\ sockets[s].onmessage # NoHandler
  /\ LET h == sockets[s].onmessage[1]
     IN /\ messages' = MessagesAfter(h, result)
        /\ streamingMessage' = DraftAfter(h, result)
        /\ isLoading' = LoadingAfter(result)
        /\ isReasoningActive' = ReasoningActiveAfter(result)
        /\ showReasoningBox' = ShowReasoningBoxAfter(result)
        /\ streamingReasoning' = StreamingReasoningAfter(h, result)
        /\ currentSessionId' = CurrentSessionIdAfter(h, result)
        /\ sockets' = [sockets EXCEPT ![s].onmessage = << Reduce(h, result) >>]
        /\ lastOp' = [Op("frame", h.userQuery, result, Classify(result)) EXCEPT !.sock = s]
  /\ nFrames' = nFrames + 1
  /\ UNCHANGED << mounted, inputValue, showReviewModal, wsConnected, wsRef, timers,
                  clock, sent, turnSock >>

(***************************************************************************)
(* Submitting.                                                             *)
(***************************************************************************)
\* sendMessageToWebSocket(userQuery); its caller has checked that
\* wsRef.current is an OPEN socket, so send() does not throw
SendMessageToWebSocket(userQuery) ==
  /\ messages' = Append(messages, UserMessage(userQuery, clock + 1))
  /\ inputValue' = <<>>
  /\ isLoading' = TRUE
  /\ streamingReasoning' = <<>>
  /\ isReasoningActive' = FALSE
  /\ showReasoningBox' = FALSE
  /\ sent' = Append(sent, [sock |-> wsRef, message |-> userQuery, details |-> Details])
  /\ sockets' = [sockets EXCEPT ![wsRef].onmessage = << NewClosure(userQuery, clock + 1) >>]
  /\ clock' = clock + 1
  /\ turnSock' = wsRef
  /\ UNCHANGED << streamingMessage, currentSessionId >>

\* the slip of testing only that a handle is present
NotConnected_HandleOnly == wsRef = 0

\* the connection check of handleSubmit
NotConnected == wsRef = 0 \/ sockets[wsRef].readyState # "OPEN"

\* handleSubmit(queryOverride) run by a closure that saw isLoading = loading
HandleSubmit(userQuery, loading, op) ==
  IF Trim(userQuery) = <<>> \/ loading
    THEN /\ lastOp' = [Op(op, userQuery, <<>>, "ignored") EXCEPT !.loading = loading]
         /\ UNCHANGED << messages, inputValue, isLoading, streamingMessage,
                         streamingReasoning, isReasoningActive, showReasoningBox,
                         currentSessionId, sockets, clock, sent, turnSock >>
  ELSE IF NotConnected
    THEN /\ lastOp' = [Op(op, userQuery, <<>>, "notConnected") EXCEPT !.loading = loading]
         /\ UNCHANGED << messages, inputValue, isLoading, streamingMessage,
                         streamingReasoning, isReasoningActive, showReasoningBox,
                         currentSessionId, sockets, clock, sent, turnSock >>
  ELSE /\ lastOp' = [Op(op, userQuery, <<>>, "accepted") EXCEPT !.loading = loading]
       /\ SendMessageToWebSocket(userQuery)

\* number of pending timers of one kind
Pending(kind) == Cardinality({i \in 1..Len(timers) : timers[i].kind = kind})

\* number of pending retry timers whose handleSubmit can still send
PendingSends ==
  Cardinality({i \in 1..Len(timers) : timers[i].kind = "retry" /\ ~timers[i].isLoading})

\* turns are left for one more submission
CanSubmit == clock + PendingSends < MaxTurns

\* the user edits the prompt (the textarea is disabled while loading)
TypeInput(q) ==
  /\ UNCHANGED modalVars
  /\ UNCHANGED appVars
  /\ mounted
  /\ ~showReviewModal
  /\ ~isLoading
  /\ q # inputValue
  /\ inputValue' = q
  /\ lastOp' = Op("type", q, <<>>, "")
  /\ UNCHANGED << mounted, messages, isLoading, streamingMessage, streamingReasoning,
                  isReasoningActive, showReasoningBox, currentSessionId, showReviewModal,
                  wsConnected, wsRef, sockets, timers, clock, sent, turnSock, nFrames >>

\* the user presses Enter or the send button: handleSubmit()
Submit ==
  /\ UNCHANGED modalVars
  /\ UNCHANGED appVars
  /\ mounted
  /\ ~showReviewModal
  /\ CanSubmit
  /\ HandleSubmit(inputValue, isLoading, "submit")
  /\ UNCHANGED << mounted, showReviewModal, wsConnected, wsRef, timers, nFrames >>

(***************************************************************************)
(* Retry.                                                                  *)
(***************************************************************************)
\* Array.prototype.slice(0, -1)
DropLast(list) == SubSeq(list, 1, Len(list) - 1)

\* the user clicks the retry button of messages[i]: ChatMessage.handleRetry
\* calls ChatInterface.handleRetry(message.userQuery), which arms a 100 ms
\* timeout around the handleSubmit of the current render
RetryClick(i) ==
  /\ UNCHANGED modalVars
  /\ UNCHANGED appVars
  /\ mounted
  /\ ~showReviewModal
  /\ isLoading \/ CanSubmit
  /\ Pending("retry") < MaxTurns
  /\ i \in 1..Len(messages)
  /\ RetryButtonShown(messages[i])
  /\ messages' = DropLast(messages)
  /\ inputValue' = messages[i].userQuery
  /\ streamingMessage' = <<>>
  /\ timers' = Append(timers, [kind |-> "retry", query |-> messages[i].userQuery,
                               isLoading |-> isLoading])
  /\ lastOp' = Op("retryClick", messages[i].userQuery, <<>>, "")
  /\ UNCHANGED << mounted, isLoading, streamingReasoning, isReasoningActive,
                  showReasoningBox, currentSessionId, showReviewModal, wsConnected,
                  wsRef, sockets, clock, sent, turnSock, nFrames >>

\* the slip of resubmitting without the query, handleSubmit(), which reads
\* the prompt text
RetryFire_FromInput ==
  /\ UNCHANGED modalVars
  /\ UNCHANGED appVars
  /\ timers # <<>>
  /\ Head(timers).kind = "retry"
  /\ HandleSubmit(inputValue, Head(timers).isLoading, "retryFire")
  /\ timers' = Tail(timers)
  /\ UNCHANGED << mounted, showReviewModal, wsConnected, wsRef, nFrames >>

\* the timeout of handleRetry fires: handleSubmit(query) of the render that
\* armed it, which still sees the isLoading of that render
RetryFire ==
  /\ UNCHANGED modalVars
  /\ UNCHANGED appVars
  /\ timers # <<>>
  /\ Head(timers).kind = "retry"
  /\ HandleSubmit(Head(timers).query, Head(timers).isLoading, "retryFire")
  /\ timers' = Tail(timers)
  /\ UNCHANGED << mounted, showReviewModal, wsConnected, wsRef, nFrames >>

(***************************************************************************)
(* The socket: mount, browser events, reset and exit.                      *)
(***************************************************************************)
\* the mount effect: initializeWebSocket() creates the first socket
Mount ==
  /\ UNCHANGED modalVars
  /\ UNCHANGED scopeVars
  /\ sessionDetails' = Details
  /\ ~mounted
  /\ mounted' = TRUE
  /\ IF wsRef # 0 /\ sockets[wsRef].readyState = "OPEN"
       THEN UNCHANGED << sockets, wsRef >>
       ELSE /\ sockets' = Append(sockets, NewSocket)
            /\ wsRef' = Len(sockets) + 1
  /\ lastOp' = Op("mount", <<>>, <<>>, "")
  /\ UNCHANGED << uiVars, wsConnected, timers, clock, sent, turnSock, nFrames >>

\* the open event of socket s: ws.onopen
SocketOpen(s) ==
  /\ UNCHANGED modalVars
  /\ UNCHANGED appVars
  /\ sockets[s].readyState = "CONNECTING"
  /\ sockets' = [sockets EXCEPT ![s].readyState = "OPEN"]
  /\ wsConnected' = TRUE
  /\ lastOp' = Op("open", <<>>, <<>>, "")
  /\ UNCHANGED << mounted, uiVars, wsRef, timers, clock, sent, turnSock, nFrames >>

\* the slip of reconnecting by itself when a socket closes
SocketClose_Reconnect(s) ==
  /\ UNCHANGED modalVars
  /\ UNCHANGED appVars
  /\ sockets[s].readyState \in {"OPEN", "CLOSING"}
  /\ sockets' = [sockets EXCEPT ![s].readyState = "CLOSED"]
  /\ wsConnected' = FALSE
  /\ wsRef' = 0
  /\ timers' = Append(timers, [kind |-> "reconnect", query |-> <<>>, isLoading |-> FALSE])
  /\ lastOp' = Op("close", <<>>, <<>>, "")
  /\ UNCHANGED << mounted, uiVars, clock, sent, turnSock, nFrames >>

\* the close event of socket s, after close() or a close by the server:
\* ws.onclose
SocketClose(s) ==
  /\ UNCHANGED modalVars
  /\ UNCHANGED appVars
  /\ sockets[s].readyState \in {"OPEN", "CLOSING"}
  /\ sockets' = [sockets EXCEPT ![s].readyState = "CLOSED"]
  /\ wsConnected' = FALSE
  /\ wsRef' = 0
  /\ lastOp' = Op("close", <<>>, <<>>, "")
  /\ UNCHANGED << mounted, uiVars, timers, clock, sent, turnSock, nFrames >>

\* the connection of socket s fails: the browser fires error and then close
\* in one task, ws.onerror and ws.onclose
SocketError(s) ==
  /\ UNCHANGED modalVars
  /\ UNCHANGED appVars
  /\ sockets[s].readyState \in {"CONNECTING", "OPEN", "CLOSING"}
  /\ sockets' = [sockets EXCEPT ![s].readyState = "CLOSED"]
  /\ wsConnected' = FALSE
  /\ wsRef' = 0
  /\ lastOp' = Op("error", <<>>, <<>>, "")
  /\ UNCHANGED << mounted, uiVars, timers, clock, sent, turnSock, nFrames >>

\* the slip of dropping the handle without closing its socket
CloseIfOpen_Skip == sockets

\* if (wsRef.current && wsRef.current.readyState === WebSocket.OPEN)
\*   wsRef.current.close()
CloseIfOpen ==
  IF wsRef # 0 /\ sockets[wsRef].readyState = "OPEN"
    THEN [sockets EXCEPT ![wsRef].readyState = "CLOSING"]
    ELSE sockets

\* handleResetSession()
HandleResetSession ==
  /\ sockets' = CloseIfOpen
  /\ wsRef' = 0
  /\ messages' = <<>>
  /\ inputValue' = <<>>
  /\ isLoading' = FALSE
  /\ streamingMessage' = <<>>
  /\ streamingReasoning' = <<>>
  /\ isReasoningActive' = FALSE
  /\ showReasoningBox' = FALSE
  /\ currentSessionId' = Null
  /\ wsConnected' = FALSE
  /\ timers' = Append(timers, [kind |-> "reconnect", query |-> <<>>, isLoading |-> FALSE])
  /\ turnSock' = 0

\* sockets are left for the reconnection of one more reset, after those of
\* the resets that are already due
CanReset ==
  Len(sockets) + Pending("reconnect") + closeTimers + Len(reviewCalls) < MaxSockets

\* the user clicks Reset Session
Reset ==
  /\ UNCHANGED modalVars
  /\ UNCHANGED appVars
  /\ mounted
  /\ ~showReviewModal
  /\ CanReset
  /\ HandleResetSession
  /\ lastOp' = Op("reset", <<>>, <<>>, "")
  /\ UNCHANGED << mounted, showReviewModal, clock, sent, nFrames >>

\* the timeout of handleResetSession fires: a new socket is created
ResetFire ==
  /\ UNCHANGED modalVars
  /\ UNCHANGED appVars
  /\ timers # <<>>
  /\ Head(timers).kind = "reconnect"
  /\ timers' = Tail(timers)
  /\ sockets' = Append(sockets, NewSocket)
  /\ wsRef' = Len(sockets) + 1
  /\ lastOp' = Op("resetFire", <<>>, <<>>, "")
  /\ UNCHANGED << mounted, uiVars, wsConnected, clock, sent, turnSock, nFrames >>

\* the user clicks Exit Session: handleExitSession()
Exit ==
  /\ UNCHANGED modalVars
  /\ UNCHANGED appVars
  /\ mounted
  /\ ~showReviewModal
  /\ CanReset
  /\ sockets' = CloseIfOpen
  /\ showReviewModal' = TRUE
  /\ lastOp' = Op("exit", <<>>, <<>>, "")
  /\ UNCHANGED << mounted, messages, inputValue, isLoading, streamingMessage,
                  streamingReasoning, isReasoningActive, showReasoningBox,
                  currentSessionId, wsConnected, wsRef, timers, clock, sent, turnSock,
                  nFrames >>

(***************************************************************************)
(* The review dialog (SessionReviewModal).                                 *)
(***************************************************************************)
\* texts typed into the review field: a review and a blank text
ReviewTexts == { <<"o", "k">>, <<" ">> }

\* the results of a fetch: a 2xx response, another response, a rejection
Outcomes == { "ok", "non2xx", "networkFailure" }

\* the slip of closing the dialog without resetting the session
CloseAndReset_CloseOnly ==
  /\ review' = <<>>
  /\ sessionLike' = "null"
  /\ submitted' = FALSE
  /\ isSubmitting' = FALSE
  /\ showReviewModal' = FALSE
  /\ UNCHANGED << messages, inputValue, isLoading, streamingMessage, streamingReasoning,
                  isReasoningActive, showReasoningBox, currentSessionId, wsConnected,
                  wsRef, sockets, timers, turnSock >>

\* closeAndReset(): the dialog state is reset, onClose() hides the dialog and
\* onSessionReset() is handleResetSession
CloseAndReset ==
  /\ review' = <<>>
  /\ sessionLike' = "null"
  /\ submitted' = FALSE
  /\ isSubmitting' = FALSE
  /\ showReviewModal' = FALSE
  /\ HandleResetSession

\* the user presses Skip or dismisses the dialog (onOpenChange)
Skip ==
  /\ UNCHANGED appVars
  /\ showReviewModal
  /\ CloseAndReset
  /\ lastOp' = Op("skip", <<>>, <<>>, "")
  /\ UNCHANGED << mounted, clock, sent, nFrames, reviewCalls, closeTimers, posted,
                  reviewLog >>

\* the user edits the review text (the field is disabled while submitting)
SetReview(t) ==
  /\ UNCHANGED appVars
  /\ showReviewModal
  /\ ~isSubmitting
  /\ ~submitted
  /\ t # review
  /\ review' = t
  /\ lastOp' = Op("setReview", t, <<>>, "")
  /\ UNCHANGED << mounted, uiVars, wsConnected, wsRef, sockets, timers, clock, sent,
                  turnSock, nFrames, sessionLike, isSubmitting, submitted, reviewCalls,
                  closeTimers, posted, reviewLog >>

\* the user presses thumbs up or thumbs down
SetSessionLike(b) ==
  /\ UNCHANGED appVars
  /\ showReviewModal
  /\ ~isSubmitting
  /\ ~submitted
  /\ b # sessionLike
  /\ sessionLike' = b
  /\ lastOp' = Op("setSessionLike", <<>>, <<>>, b)
  /\ UNCHANGED << mounted, uiVars, wsConnected, wsRef, sockets, timers, clock, sent,
                  turnSock, nFrames, review, isSubmitting, submitted, reviewCalls,
                  closeTimers, posted, reviewLog >>

\* the pending calls without the i-th
RemoveCall(i) == SubSeq(reviewCalls, 1, i - 1) \o SubSeq(reviewCalls, i + 1, Len(reviewCalls))

\* a request given to fetch()
Request(url, c) ==
  [ url |-> url, session_id |-> c.sessionId,
    body |-> IF url = "publishreview" THEN c.review ELSE << c.sessionLike >> ]

\* the end of the try block: setSubmitted(true) and the 2 s timeout
Finish(c, rest) ==
  /\ submitted' = TRUE
  /\ closeTimers' = closeTimers + 1
  /\ reviewCalls' = rest
  /\ reviewLog' = Append(reviewLog, [c EXCEPT !.awaiting = "done"])
  /\ UNCHANGED posted

\* handleSubmitReview after the review part: the like/dislike is posted if
\* one was chosen, otherwise the call goes on to its end
PostLikeOrFinish(c, rest) ==
  IF c.sessionLike # "null"
    THEN /\ posted' = Append(posted, Request("update-like-session", c))
         /\ reviewCalls' = Append(rest, [c EXCEPT !.awaiting = "like",
                                                  !.posts = @ \cup {"update-like-session"}])
         /\ UNCHANGED << submitted, closeTimers, reviewLog >>
    ELSE Finish(c, rest)

\* the catch block: a fetch has rejected
Failed(c, rest) ==
  /\ isSubmitting' = FALSE
  /\ reviewCalls' = rest
  /\ reviewLog' = Append(reviewLog, [c EXCEPT !.awaiting = "failed"])
  /\ UNCHANGED << posted, submitted, closeTimers >>

\* calls of handleSubmitReview are left, and a socket for the reset of one
CanReview ==
  /\ Len(reviewLog) + Len(reviewCalls) < MaxReviews
  /\ Len(sockets) + Pending("reconnect") + closeTimers + Len(reviewCalls) + 1 < MaxSockets

\* the user presses Submit Review: handleSubmitReview() up to its first
\* await
SubmitReview ==
  /\ UNCHANGED appVars
  /\ showReviewModal
  /\ ~isSubmitting
  /\ ~submitted
  /\ ~(sessionLike = "null" /\ Trim(review) = <<>>)
  /\ CanReview
  /\ IF currentSessionId = Null \/ currentSessionId = <<>>
       THEN /\ lastOp' = Op("submitReview", review, <<>>, "noSession")
            /\ UNCHANGED modalVars
       ELSE LET c == [ sessionId |-> currentSessionId, review |-> review,
                       sessionLike |-> sessionLike, awaiting |-> "review",
                       posts |-> {} ]
            IN /\ lastOp' = Op("submitReview", review, <<>>, "started")
               /\ isSubmitting' = TRUE
               /\ UNCHANGED << review, sessionLike >>
               /\ IF Trim(review) # <<>>
                    THEN /\ posted' = Append(posted, Request("publishreview", c))
                         /\ reviewCalls' =
                              Append(reviewCalls, [c EXCEPT !.posts = {"publishreview"}])
                         /\ UNCHANGED << submitted, closeTimers, reviewLog >>
                    ELSE PostLikeOrFinish(c, reviewCalls)
  /\ UNCHANGED << mounted, uiVars, wsConnected, wsRef, sockets, timers, clock, sent,
                  turnSock, nFrames >>

\* the fetch of /publishreview of call i settles
ReviewResponse(i, outcome) ==
  /\ UNCHANGED appVars
  /\ i \in 1..Len(reviewCalls)
  /\ reviewCalls[i].awaiting = "review"
  /\ LET c == reviewCalls[i]
         rest == RemoveCall(i)
     IN IF outcome = "networkFailure"
          THEN Failed(c, rest)
          ELSE PostLikeOrFinish(c, rest) /\ UNCHANGED isSubmitting
  /\ lastOp' = Op("reviewResponse", <<>>, <<>>, outcome)
  /\ UNCHANGED << mounted, uiVars, wsConnected, wsRef, sockets, timers, clock, sent,
                  turnSock, nFrames, review, sessionLike >>

\* the fetch of /update-like-session of call i settles
LikeResponse(i, outcome) ==
  /\ UNCHANGED appVars
  /\ i \in 1..Len(reviewCalls)
  /\ reviewCalls[i].awaiting = "like"
  /\ LET c == reviewCalls[i]
         rest == RemoveCall(i)
     IN IF outcome = "networkFailure"
          THEN Failed(c, rest)
          ELSE Finish(c, rest) /\ UNCHANGED isSubmitting
  /\ lastOp' = Op("likeResponse", <<>>, <<>>, outcome)
  /\ UNCHANGED << mounted, uiVars, wsConnected, wsRef, sockets, timers, clock, sent,
                  turnSock, nFrames, review, sessionLike >>

\* the 2 s timeout of handleSubmitReview fires: closeAndReset()
CloseFire ==
  /\ UNCHANGED appVars
  /\ closeTimers > 0
  /\ closeTimers' = closeTimers - 1
  /\ CloseAndReset
  /\ lastOp' = Op("closeFire", <<>>, <<>>, "")
  /\ UNCHANGED << mounted, clock, sent, nFrames, reviewCalls, posted, reviewLog >>

(***************************************************************************)
(* Home and AuthPanel: the token, its debounced verification and the       *)
(* chain organization, workspace, project.  Strings that are only compared *)
(* are TLA+ strings; "" is the empty selection.                            *)
(***************************************************************************)
\* the item every Select offers before its candidates
Sentinel == "--Select--"

\* a selection that is neither empty nor the sentinel
Real(x) == x # "" /\ x # Sentinel

\* Home: allDetailsFilled, the condition under which ChatInterface is rendered
AllDetailsFilled ==
  /\ token # ""
  /\ verified
  /\ Real(organization)
  /\ Real(workspace)
  /\ Real(project)

\* AuthPanel: setupComplete, which no render reads
SetupComplete ==
  /\ verified
  /\ \/ orgsFetched /\ organizations = <<>>
     \/ workspacesFetched /\ workspaces = <<>>
     \/ projectsFetched /\ projects = <<>>
     \/ Real(organization) /\ Real(workspace) /\ Real(project)

\* the state a render of Home and AuthPanel shows, with the timers and
\* fetches its effects act on
Panel ==
  [ token |-> token, verified |-> verified, organization |-> organization,
    workspace |-> workspace, project |-> project, verificationMsg |-> verificationMsg,
    organizations |-> organizations, workspaces |-> workspaces, projects |-> projects,
    loading |-> panelLoading, isVerifying |-> isVerifying,
    showOrgWarning |-> showOrgWarning, showWorkspaceWarning |-> showWorkspaceWarning,
    showProjectWarning |-> showProjectWarning, orgsFetched |-> orgsFetched,
    workspacesFetched |-> workspacesFetched, projectsFetched |-> projectsFetched,
    debounceTimerRef |-> debounceTimerRef, pendingTimers |-> pendingTimers,
    requests |-> requests, armed |-> armed ]

\* the next state is the record r
Commit(r) ==
  /\ token' = r.token
  /\ verified' = r.verified
  /\ organization' = r.organization
  /\ workspace' = r.workspace
  /\ project' = r.project
  /\ verificationMsg' = r.verificationMsg
  /\ organizations' = r.organizations
  /\ workspaces' = r.workspaces
  /\ projects' = r.projects
  /\ panelLoading' = r.loading
  /\ isVerifying' = r.isVerifying
  /\ showOrgWarning' = r.showOrgWarning
  /\ showWorkspaceWarning' = r.showWorkspaceWarning
  /\ showProjectWarning' = r.showProjectWarning
  /\ orgsFetched' = r.orgsFetched
  /\ workspacesFetched' = r.workspacesFetched
  /\ projectsFetched' = r.projectsFetched
  /\ debounceTimerRef' = r.debounceTimerRef
  /\ pendingTimers' = r.pendingTimers
  /\ requests' = r.requests
  /\ armed' = r.armed

\* the slip of arming a new timeout without cancelling the pending one
ClearTimeout_Keep(n) == n

\* if (debounceTimerRef.current) clearTimeout(debounceTimerRef.current)
ClearTimeout(n) ==
  [n EXCEPT !.pendingTimers = {t \in @ : t.id # n.debounceTimerRef}]

\* fetch(url) with the query parameters the effect read from its render
Fetch(n, url, tok, org, ws) ==
  [n EXCEPT !.requests =
     @ (+) SetToBag({[url |-> url, token |-> tok, organization |-> org, workspace |-> ws]})]

\* the verification effect, run because token changed: the cleanup of its
\* previous run (there is one if that run armed a timeout), then its body.
\* c is the render the effect closes over, n collects what it does.
VerifyEffect(prev, c, n) ==
  LET cleaned == IF prev.token # "" THEN ClearTimeout(n) ELSE n
  IN IF c.token = ""
       THEN [cleaned EXCEPT !.verified = FALSE, !.verificationMsg = ""]
       ELSE [ClearTimeout(cleaned) EXCEPT
               !.isVerifying = TRUE,
               !.verificationMsg = "",
               !.debounceTimerRef = cleaned.armed + 1,
               !.armed = cleaned.armed + 1,
               !.pendingTimers = @ \cup {[id |-> cleaned.armed + 1, token |-> c.token]}]

\* the organizations effect
OrganizationsEffect(c, n) ==
  IF ~c.verified THEN [n EXCEPT !.orgsFetched = FALSE]
  ELSE Fetch(n, "organizations", c.token, "", "")

\* the workspaces effect
WorkspacesEffect(c, n) ==
  IF ~c.orgsFetched THEN n
  ELSE IF ~Real(c.organization)
    THEN [n EXCEPT !.workspacesFetched = FALSE, !.workspaces = <<>>,
                   !.showWorkspaceWarning = FALSE]
  ELSE Fetch(n, "workspaces", c.token, c.organization, "")

\* the projects effect
ProjectsEffect(c, n) ==
  IF ~c.workspacesFetched THEN n
  ELSE IF ~Real(c.workspace)
    THEN [n EXCEPT !.projectsFetched = FALSE, !.projects = <<>>,
                   !.showProjectWarning = FALSE]
  ELSE Fetch(n, "projects", c.token, c.organization, c.workspace)

\* React after a batch of setState calls: the render c replaces the render
\* prev, the effects whose dependencies differ between the two run in the
\* order of their declaration, each closing over c, and the state they set
\* is rendered in turn until a render runs no effect that sets state.
\* (mounted is true and the setters are stable, so they never differ.)
RECURSIVE RunEffects(_, _)
RunEffects(prev, c) ==
  LET n1 == IF prev.token # c.token THEN VerifyEffect(prev, c, c) ELSE c
      n2 == IF <<prev.verified, prev.token>> # <<c.verified, c.token>>
              THEN OrganizationsEffect(c, n1) ELSE n1
      n3 == IF <<prev.organization, prev.token, prev.orgsFetched>>
                 # <<c.organization, c.token, c.orgsFetched>>
              THEN WorkspacesEffect(c, n2) ELSE n2
      n4 == IF <<prev.workspace, prev.organization, prev.token, prev.workspacesFetched>>
                 # <<c.workspace, c.organization, c.token, c.workspacesFetched>>
              THEN ProjectsEffect(c, n3) ELSE n3
  IN IF n4 = c THEN c ELSE RunEffects(c, n4)

\* token values typed into the token input
Tokens == {"t1", "t2"}

\* bodies the backend answers with
OrgLists == { <<>>, <<"o1">> }

WorkspaceLists == { <<>>, <<"w1">> }

ProjectLists == { <<>>, <<"p1", "p2">> }

\* the elements of a list
Items(list) == {list[i] : i \in 1..Len(list)}

\* the user edits the token input: setToken(e.target.value)
SetToken(t) ==
  /\ BagCardinality(requests) <= MaxInFlight
  /\ t # token
  /\ Commit(RunEffects(Panel, [Panel EXCEPT !.token = t]))
  /\ edits' = edits + 1
  /\ lastOp' = Op("setToken", <<>>, <<>>, t)
  /\ UNCHANGED << chatVars, modalVars, sessionDetails, selections, verifiedToken >>

\* the timeout armed by the verification effect fires: the request for the
\* token of its render is issued
TimerFire(t) ==
  /\ t \in pendingTimers
  /\ Commit(RunEffects(Panel,
       Fetch([Panel EXCEPT !.pendingTimers = @ \ {t}, !.loading = TRUE],
             "verify-token", t.token, "", "")))
  /\ lastOp' = Op("timerFire", <<>>, <<>>, t.token)
  /\ UNCHANGED << chatVars, modalVars, sessionDetails, edits, selections, verifiedToken >>

\* requests without one copy of q
Answered(q) == requests (-) SetToBag({q})

\* the fetches that wait for their response
InFlight == BagToSet(requests)

\* the response of /verify-token arrives
VerifyResponse(q, outcome) ==
  /\ q \in InFlight
  /\ q.url = "verify-token"
  /\ Commit(RunEffects(Panel,
       [Panel EXCEPT !.requests = Answered(q),
                     !.verified = (outcome = "ok"),
                     !.verificationMsg = IF outcome = "ok" THEN "verified"
                                         ELSE IF outcome = "non2xx" THEN "failed"
                                         ELSE "connection",
                     !.loading = FALSE,
                     !.isVerifying = FALSE]))
  /\ verifiedToken' = IF outcome = "ok" THEN q.token ELSE verifiedToken
  /\ lastOp' = Op("verifyResponse", <<>>, <<>>, outcome)
  /\ UNCHANGED << chatVars, modalVars, sessionDetails, edits, selections >>

\* the slip of leaving the warning of the organization level off
OrganizationsOk_NoWarning(r, orgList) ==
  IF orgList = <<>>
    THEN [r EXCEPT !.organizations = orgList, !.orgsFetched = TRUE,
                   !.organization = "", !.workspace = "", !.project = "",
                   !.workspacesFetched = TRUE, !.projectsFetched = TRUE]
    ELSE [r EXCEPT !.organizations = orgList, !.orgsFetched = TRUE,
                   !.showOrgWarning = FALSE]

\* fetchOrganizations after its awaits, with data.organizations || []
OrganizationsOk(r, orgList) ==
  IF orgList = <<>>
    THEN [r EXCEPT !.organizations = orgList, !.orgsFetched = TRUE,
                   !.organization = "", !.workspace = "", !.project = "",
                   !.showOrgWarning = TRUE,
                   !.workspacesFetched = TRUE, !.projectsFetched = TRUE]
    ELSE [r EXCEPT !.organizations = orgList, !.orgsFetched = TRUE,
                   !.showOrgWarning = FALSE]

\* fetchOrganizations: catch
OrganizationsFailed(r) ==
  [r EXCEPT !.organizations = <<>>, !.organization = "", !.workspace = "",
            !.project = "", !.showOrgWarning = TRUE, !.orgsFetched = TRUE,
            !.workspacesFetched = TRUE, !.projectsFetched = TRUE]

\* fetchWorkspaces after its awaits
WorkspacesOk(r, workspaceList) ==
  IF workspaceList = <<>>
    THEN [r EXCEPT !.workspaces = workspaceList, !.workspacesFetched = TRUE,
                   !.workspace = "", !.project = "", !.showWorkspaceWarning = TRUE,
                   !.projectsFetched = TRUE]
    ELSE [r EXCEPT !.workspaces = workspaceList, !.workspacesFetched = TRUE,
                   !.showWorkspaceWarning = FALSE]

\* fetchWorkspaces: catch
WorkspacesFailed(r) ==
  [r EXCEPT !.workspaces = <<>>, !.workspace = "", !.project = "",
            !.showWorkspaceWarning = TRUE, !.workspacesFetched = TRUE,
            !.projectsFetched = TRUE]

\* fetchProjects after its awaits
ProjectsOk(r, projectList) ==
  IF projectList = <<>>
    THEN [r EXCEPT !.projects = projectList, !.projectsFetched = TRUE,
                   !.project = "", !.showProjectWarning = TRUE]
    ELSE [r EXCEPT !.projects = projectList, !.projectsFetched = TRUE,
                   !.showProjectWarning = FALSE]

\* fetchProjects: catch
ProjectsFailed(r) ==
  [r EXCEPT !.projects = <<>>, !.project = "", !.showProjectWarning = TRUE,
            !.projectsFetched = TRUE]

\* the fetch q of a candidate list is answered: with a body whose list is
\* list (a body without the list counts as the empty list), or not at all
\* (ok = FALSE: the network failed or the body is no JSON)
ListResponse(q, ok, list) ==
  /\ q \in InFlight
  /\ LET url == q.url
         r == [Panel EXCEPT !.requests = Answered(q)]
     IN /\ \/ url = "organizations" /\ (ok => list \in OrgLists)
           \/ url = "workspaces" /\ (ok => list \in WorkspaceLists)
           \/ url = "projects" /\ (ok => list \in ProjectLists)
        /\ Commit(RunEffects(Panel,
             CASE url = "organizations" ->
                    IF ok THEN OrganizationsOk(r, list) ELSE OrganizationsFailed(r)
               [] url = "workspaces" ->
                    IF ok THEN WorkspacesOk(r, list) ELSE WorkspacesFailed(r)
               [] url = "projects" ->
                    IF ok THEN ProjectsOk(r, list) ELSE ProjectsFailed(r)))
        /\ lastOp' = Op(url, <<>>, <<>>,
                        IF ~ok THEN "failed" ELSE IF list = <<>> THEN "empty" ELSE "list")
  /\ UNCHANGED << chatVars, modalVars, sessionDetails, edits, selections, verifiedToken >>

\* the user picks an item of the organization Select
SelectOrganization(o) ==
  /\ BagCardinality(requests) <= MaxInFlight
  /\ verified
  /\ organizations # <<>>
  /\ o \in {Sentinel} \cup Items(organizations)
  /\ o # organization
  /\ Commit(RunEffects(Panel, [Panel EXCEPT !.organization = o]))
  /\ selections' = selections + 1
  /\ lastOp' = Op("selectOrganization", <<>>, <<>>, o)
  /\ UNCHANGED << chatVars, modalVars, sessionDetails, edits, verifiedToken >>

\* the user picks an item of the workspace Select
SelectWorkspace(w) ==
  /\ BagCardinality(requests) <= MaxInFlight
  /\ verified
  /\ orgsFetched
  /\ ~showOrgWarning
  /\ Real(organization)
  /\ workspaces # <<>>
  /\ w \in {Sentinel} \cup Items(workspaces)
  /\ w # workspace
  /\ Commit(RunEffects(Panel, [Panel EXCEPT !.workspace = w]))
  /\ selections' = selections + 1
  /\ lastOp' = Op("selectWorkspace", <<>>, <<>>, w)
  /\ UNCHANGED << chatVars, modalVars, sessionDetails, edits, verifiedToken >>

\* the user picks an item of the project Select
SelectProject(p) ==
  /\ BagCardinality(requests) <= MaxInFlight
  /\ verified
  /\ workspacesFetched
  /\ ~showWorkspaceWarning
  /\ Real(workspace)
  /\ projects # <<>>
  /\ p \in {Sentinel} \cup Items(projects)
  /\ p # project
  /\ Commit(RunEffects(Panel, [Panel EXCEPT !.project = p]))
  /\ selections' = selections + 1
  /\ lastOp' = Op("selectProject", <<>>, <<>>, p)
  /\ UNCHANGED << chatVars, modalVars, sessionDetails, edits, verifiedToken >>

\* Home stops rendering ChatInterface: the cleanup of the mount effect runs
\* and the state of the component is discarded
Unmount ==
  /\ mounted
  /\ ~AllDetailsFilled
  /\ mounted' = FALSE
  /\ sockets' = CloseIfOpen
  /\ wsRef' = 0
  /\ messages' = <<>>
  /\ inputValue' = <<>>
  /\ isLoading' = FALSE
  /\ streamingMessage' = <<>>
  /\ streamingReasoning' = <<>>
  /\ isReasoningActive' = FALSE
  /\ showReasoningBox' = FALSE
  /\ currentSessionId' = Null
  /\ showReviewModal' = FALSE
  /\ wsConnected' = FALSE
  /\ lastOp' = Op("unmount", <<>>, <<>>, "")
  /\ UNCHANGED << timers, clock, sent, turnSock, nFrames, modalVars, appVars >>

(***************************************************************************)
(* Specifications.                                                         *)
(***************************************************************************)
SocketIds == 1..Len(sockets)

\* the chat session with the handlers of ChatInterface; its review dialog is
\* only skipped
Next ==
  \/ Mount
  \/ \E s \in SocketIds : SocketOpen(s)
  \/ \E s \in SocketIds : SocketClose(s)
  \/ \E s \in SocketIds : SocketError(s)
  \/ \E q \in Queries : TypeInput(q)
  \/ Submit
  \/ \E s \in SocketIds, f \in CoreFrames : nFrames < MaxFrames /\ HandleMessage(s, f)
  \/ \E i \in 1..Len(messages) : RetryClick(i)
  \/ RetryFire
  \/ Reset
  \/ ResetFire
  \/ Exit
  \/ Skip

Spec == Init /\ [][Next]_vars

\* the turns and retries of one connection: the session without reset and exit
NextTurns ==
  \/ Mount
  \/ \E s \in SocketIds : SocketOpen(s)
  \/ \E s \in SocketIds : SocketClose(s)
  \/ \E s \in SocketIds : SocketError(s)
  \/ \E q \in Queries : TypeInput(q)
  \/ Submit
  \/ \E s \in SocketIds, f \in CoreFrames : nFrames < MaxFrames /\ HandleMessage(s, f)
  \/ \E i \in 1..Len(messages) : RetryClick(i)
  \/ RetryFire

SpecTurns == Init /\ [][NextTurns]_vars

\* resets of a session whose connection is open, with turns in between; a
\* socket closes only after close() was called on it
NextReset ==
  \/ Mount
  \/ \E s \in SocketIds : SocketOpen(s)
  \/ \E s \in SocketIds : sockets[s].readyState = "CLOSING" /\ SocketClose(s)
  \/ \E q \in Queries : TypeInput(q)
  \/ Submit
  \/ \E s \in SocketIds, f \in ResetFrames : nFrames < MaxFrames /\ HandleMessage(s, f)
  \/ (wsRef # 0 /\ sockets[wsRef].readyState = "OPEN" /\ Reset)
  \/ ResetFire

SpecReset == Init /\ [][NextReset]_vars

\* the life cycle of the connection: every socket event, reset and exit, no
\* turns
NextConn ==
  \/ Mount
  \/ \E s \in SocketIds : SocketOpen(s)
  \/ \E s \in SocketIds : SocketClose(s)
  \/ \E s \in SocketIds : SocketError(s)
  \/ Reset
  \/ ResetFire
  \/ Exit
  \/ Skip

SpecConn == Init /\ [][NextConn]_vars

\* the exit of a session and its review dialog, after one turn that may
\* have received the session id
NextReview ==
  \/ Mount
  \/ \E s \in SocketIds : SocketOpen(s)
  \/ \E q \in Queries : sent = <<>> /\ TypeInput(q)
  \/ (sent = <<>> /\ Submit)
  \/ \E s \in SocketIds, f \in ReviewFrames : nFrames < MaxFrames /\ HandleMessage(s, f)
  \/ Exit
  \/ Skip
  \/ \E t \in ReviewTexts : SetReview(t)
  \/ \E b \in {"true", "false"} : SetSessionLike(b)
  \/ SubmitReview
  \/ \E i \in 1..Len(reviewCalls), o \in Outcomes : ReviewResponse(i, o)
  \/ \E i \in 1..Len(reviewCalls), o \in Outcomes : LikeResponse(i, o)
  \/ CloseFire
  \/ ResetFire

SpecReview == Init /\ [][NextReview]_vars

\* the decoder and reducer on one connection, fed every frame of AllFrames
NextStream ==
  \/ Mount
  \/ \E s \in SocketIds : SocketOpen(s)
  \/ \E q \in Queries : TypeInput(q)
  \/ Submit
  \/ \E s \in SocketIds, f \in AllFrames : nFrames < MaxStreamFrames /\ HandleMessage(s, f)

SpecStream == Init /\ [][NextStream]_vars

\* the accumulators of the turns of one connection, fed the frames of
\* DecodeFrames
NextDecode ==
  \/ Mount
  \/ \E s \in SocketIds : SocketOpen(s)
  \/ \E q \in Queries : TypeInput(q)
  \/ Submit
  \/ \E s \in SocketIds, f \in DecodeFrames : nFrames < MaxStreamFrames /\ HandleMessage(s, f)

SpecDecode == Init /\ [][NextDecode]_vars

\* the inputs of the scope panel, with at most e edits of the token and at
\* most n picks in the Selects
ScopeInput(e, n) ==
  \/ \E t \in Tokens \cup {""} : edits < e /\ SetToken(t)
  \/ \E o \in {Sentinel} \cup Items(organizations) : selections < n /\ SelectOrganization(o)
  \/ \E w \in {Sentinel} \cup Items(workspaces) : selections < n /\ SelectWorkspace(w)
  \/ \E p \in {Sentinel} \cup Items(projects) : selections < n /\ SelectProject(p)

\* the timer and the responses of the backend
ScopeEvent ==
  \/ \E t \in pendingTimers : TimerFire(t)
  \/ \E q \in InFlight, outcome \in Outcomes : VerifyResponse(q, outcome)
  \/ \E q \in InFlight, list \in OrgLists \cup WorkspaceLists \cup ProjectLists :
       ListResponse(q, TRUE, list)
  \/ \E q \in InFlight : ListResponse(q, FALSE, <<>>)

\* Home and AuthPanel alone
NextScope ==
  \/ ScopeInput(MaxEdits, MaxSelections)
  \/ ScopeEvent

SpecScope == Init /\ [][NextScope]_vars

\* the token input alone: its debounce, the verification and the fetches
\* that follow it, with no pick in any Select
NextVerify ==
  \/ \E t \in Tokens \cup {""} : edits < MaxEdits /\ SetToken(t)
  \/ ScopeEvent

SpecVerify == Init /\ [][NextVerify]_vars

\* Home, AuthPanel and the ChatInterface that Home renders while all details
\* are filled: one token edit less than in SpecScope and one construction
\* of ChatInterface
NextApp ==
  \/ ScopeInput(MaxEdits - 1, MaxSelections)
  \/ ScopeEvent
  \/ (AllDetailsFilled /\ sockets = <<>> /\ Mount)
  \/ \E s \in SocketIds : SocketOpen(s)
  \/ \E q \in Queries : AllDetailsFilled /\ TypeInput(q)
  \/ (AllDetailsFilled /\ Submit)
  \/ Unmount

SpecApp == Init /\ [][NextApp]_vars

(***************************************************************************)
(* Vocabulary of the properties.                                           *)
(***************************************************************************)
\* the decoding table of the protocol, in its order of precedence
RuleTable ==
  << [match |-> "equal", tag |-> TagDone, event |-> "StreamComplete"],
     [match |-> "prefix", tag |-> TagError, event |-> "StreamError"],
     [match |-> "prefix", tag |-> TagMetadata, event |-> "MetadataReceived"],
     [match |-> "prefix", tag |-> TagScratchpad, event |-> "ScratchpadReceived"],
     [match |-> "prefix", tag |-> TagToolResponse, event |-> "ToolResponseReceived"],
     [match |-> "prefix", tag |-> TagSessionId, event |-> "SessionIdReceived"],
     [match |-> "prefix", tag |-> TagReasoning, event |-> "ReasoningChunk"],
     [match |-> "equal", tag |-> TagReasoningDone, event |-> "ReasoningComplete"] >>

RuleMatches(rule, frame) ==
  IF rule.match = "equal" THEN frame = rule.tag
  ELSE Len(frame) >= Len(rule.tag) /\ \A i \in 1..Len(rule.tag) : frame[i] = rule.tag[i]

\* the event of the first rule of the table that matches, ContentChunk if none
ExpectedEvent(frame) ==
  LET hits == {i \in 1..Len(RuleTable) : RuleMatches(RuleTable[i], frame)}
  IN IF hits = {} THEN "ContentChunk"
     ELSE RuleTable[CHOOSE i \in hits : \A j \in hits : i <= j].event

\* the frames of a log that the table decodes to event
FramesOf(log, event) == SelectSeq(log, LAMBDA f : ExpectedEvent(f) = event)

RECURSIVE Concat(_)
Concat(list) == IF list = <<>> THEN <<>> ELSE Head(list) \o Concat(Tail(list))

\* the payloads of a list of frames: each frame without its first n characters
Payloads(list, n) == [i \in 1..Len(list) |-> SubSeq(list[i], n + 1, Len(list[i]))]

\* the last element of a list, or none if the list is empty
LastOr(list, none) == IF list = <<>> THEN none ELSE list[Len(list)]

\* the values of the frames of a JSON channel that parse
ParsedValues(log, event, n) ==
  LET texts == Payloads(FramesOf(log, event), n)
      good == SelectSeq(texts, LAMBDA t : JSONParse(t).ok)
  IN [i \in 1..Len(good) |-> JSONParse(good[i]).val]

\* the closure of the handler installed on socket s
HandlerOf(s) == sockets[s].onmessage[1]

\* the last handler to run was handleMessage, and it took the branch of event
FrameDone(event) == lastOp.op = "frame" /\ lastOp.event = event

\* a turn is open: sent on turnSock and neither finalized nor reset since
TurnOpen ==
  /\ turnSock # 0
  /\ sockets[turnSock].onmessage # NoHandler
  /\ FramesOf(HandlerOf(turnSock).log, "StreamComplete") = <<>>
  /\ FramesOf(HandlerOf(turnSock).log, "StreamError") = <<>>

\* the open turn has processed a [REASONING] frame
ReasoningSeen == TurnOpen /\ FramesOf(HandlerOf(turnSock).log, "ReasoningChunk") # <<>>

(***************************************************************************)
(* C2: every frame produces the event of the first matching rule of the    *)
(* decoding table; [REASONING_DONE] is never a reasoning chunk, and a      *)
(* frame that only begins with [DONE] or [REASONING_DONE] is content.      *)
(***************************************************************************)
C2_FirstMatchingRule ==
  lastOp.op = "frame" =>
    /\ lastOp.event = ExpectedEvent(lastOp.frame)
    /\ lastOp.frame = TagReasoningDone => lastOp.event = "ReasoningComplete"
    /\ \A tag \in {TagDone, TagReasoningDone} :
         (StartsWith(lastOp.frame, tag) /\ lastOp.frame # tag) => lastOp.event = "ContentChunk"

C2_Witness ==
  /\ FrameDone("ContentChunk")
  /\ lastOp.frame = TagDone \o <<"a">>
  /\ streamingMessage # <<>>
  /\ streamingMessage[1].content = TagDone \o <<"a">>

(***************************************************************************)
(* C3: when [DONE] ends a turn without [ERROR], the content of the         *)
(* finalized message is the concatenation, in order, of the content frames *)
(* of the turn.                                                            *)
(***************************************************************************)
C3_ContentIsConcatenation ==
  (FrameDone("StreamComplete")
     /\ FramesOf(HandlerOf(lastOp.sock).log, "StreamError") = <<>>) =>
    /\ messages # <<>>
    /\ messages[Len(messages)].role = "assistant"
    /\ messages[Len(messages)].content
         = Concat(FramesOf(HandlerOf(lastOp.sock).log, "ContentChunk"))

C3_Witness ==
  /\ FrameDone("StreamComplete")
  /\ Len(FramesOf(HandlerOf(lastOp.sock).log, "ContentChunk")) = 2
  /\ messages[Len(messages)].content = <<"a", "b", " ">>

(***************************************************************************)
(* C4: the message appended on [DONE] is built from the frames of its own  *)
(* turn: reasoning is the concatenation of the turn's reasoning payloads,  *)
(* session id, metadata, scratchpad and tool response are those of the     *)
(* turn's most recent frame that carries one, empty or null if there is    *)
(* none, whatever earlier turns received.                                  *)
(***************************************************************************)
C4_BuiltFromOwnTurn ==
  FrameDone("StreamComplete") =>
    LET log == HandlerOf(lastOp.sock).log
        m == messages[Len(messages)]
    IN /\ m.role = "assistant"
       /\ m.reasoning = Concat(Payloads(FramesOf(log, "ReasoningChunk"), 11))
       /\ m.sessionId = LastOr(Payloads(FramesOf(log, "SessionIdReceived"), 12), <<>>)
       /\ m.metadata = LastOr(ParsedValues(log, "MetadataReceived", 10), JsNull)
       /\ m.scratchpad = LastOr(ParsedValues(log, "ScratchpadReceived", 12), JsNull)
       /\ m.tool_response = LastOr(ParsedValues(log, "ToolResponseReceived", 14), JsNull)

\* a second turn is finalized with nothing of its own after a first turn
\* that had received a session id
C4_Witness ==
  /\ FrameDone("StreamComplete")
  /\ Len(messages) = 4
  /\ messages[2].sessionId # <<>>
  /\ messages[4].sessionId = <<>>

(***************************************************************************)
(* C1: once the open turn has processed a [REASONING] frame, the reasoning *)
(* display stays visible until the turn's [DONE] or [ERROR]; a             *)
(* [REASONING_DONE] frame turns the active indicator off and leaves the    *)
(* display visible.                                                        *)
(***************************************************************************)
C1_ReasoningStaysVisible ==
  /\ ReasoningSeen => showReasoningBox
  /\ (FrameDone("ReasoningComplete") /\ lastOp.sock = turnSock) => ~isReasoningActive

\* the last handler to run was a handleSubmit that went on to send
SubmitAccepted == lastOp.op \in {"submit", "retryFire"} /\ lastOp.event = "accepted"

(***************************************************************************)
(* C5: an [ERROR] frame finalizes the turn as an assistant message of the  *)
(* message list with content "Error: " plus the rest of the frame, the     *)
(* user query of the turn and no session id.                               *)
(***************************************************************************)
C5_ErrorFinalizedInList ==
  FrameDone("StreamError") =>
    /\ messages # <<>>
    /\ messages[Len(messages)].role = "assistant"
    /\ messages[Len(messages)].content
         = ErrorPrefix \o SubSeq(lastOp.frame, 8, Len(lastOp.frame))
    /\ messages[Len(messages)].userQuery = lastOp.q
    /\ messages[Len(messages)].sessionId \in {Undefined, <<>>}

(***************************************************************************)
(* C6: after the [DONE] or the [ERROR] of the turn the session is idle: no *)
(* streaming draft, not loading, reasoning display and indicator off.      *)
(***************************************************************************)
C6_IdleAfterTermination ==
  ((FrameDone("StreamComplete") \/ FrameDone("StreamError")) /\ lastOp.sock = turnSock) =>
    /\ streamingMessage = <<>>
    /\ ~isLoading
    /\ ~showReasoningBox
    /\ ~isReasoningActive

(***************************************************************************)
(* C7: a turn puts at most one assistant message in the list, also when    *)
(* frames follow its [DONE] or [ERROR], and a content frame produces a     *)
(* draft only while the turn is loading.                                   *)
(***************************************************************************)
C7_OneAssistantMessagePerTurn ==
  /\ \A i, j \in 1..Len(messages) :
       (i < j /\ messages[i].role = "assistant" /\ messages[j].role = "assistant")
         => messages[i].id # messages[j].id
  /\ FrameDone("ContentChunk") => isLoading

(***************************************************************************)
(* C8: an accepted submit appends the user message and leaves neither a    *)
(* streaming draft nor a reasoning draft.                                  *)
(***************************************************************************)
C8_SubmitLeavesNoDraft ==
  SubmitAccepted =>
    /\ messages # <<>>
    /\ messages[Len(messages)].role = "user"
    /\ messages[Len(messages)].content = lastOp.q
    /\ streamingMessage = <<>>
    /\ streamingReasoning = <<>>

(***************************************************************************)
(* C9: from an accepted submit until the turn processes a [SESSION_ID]      *)
(* frame, currentSessionId is unset.                                       *)
(***************************************************************************)
C9_SubmitClearsSessionId ==
  (TurnOpen /\ FramesOf(HandlerOf(turnSock).log, "SessionIdReceived") = <<>>) =>
    currentSessionId = Null

(***************************************************************************)
(* C10: the resubmission of a retry with query q that finds the connection *)
(* open starts exactly one turn: one payload with message q is sent, one   *)
(* user message with content q is appended, and the turn starts as after a *)
(* fresh submit.                                                           *)
(***************************************************************************)
\* the step is the resubmission of a retry
RetryFireStep ==
  /\ timers # <<>>
  /\ Head(timers).kind = "retry"
  /\ timers' = Tail(timers)
  /\ lastOp'.op = "retryFire"

\* the step starts exactly one turn for the query q on the current socket
StartsOneTurn(q) ==
  /\ Len(sent') = Len(sent) + 1
  /\ sent'[Len(sent')].sock = wsRef
  /\ sent'[Len(sent')].message = q
  /\ Len(messages') = Len(messages) + 1
  /\ SubSeq(messages', 1, Len(messages)) = messages
  /\ messages'[Len(messages')].role = "user"
  /\ messages'[Len(messages')].content = q
  /\ isLoading'
  /\ inputValue' = <<>>
  /\ sockets'[wsRef].onmessage # NoHandler
  /\ sockets'[wsRef].onmessage[1].userQuery = q
  /\ sockets'[wsRef].onmessage[1].log = <<>>
  /\ sockets'[wsRef].onmessage[1].fullResponse = <<>>

\* the claim as stated
C10_RetryStartsOneTurn ==
  [][(RetryFireStep /\ ~NotConnected) => StartsOneTurn(Head(timers).query)]_vars

\* the claim for a retry clicked while no turn was loading
C10_IdleRetryStartsOneTurn ==
  [][(RetryFireStep /\ ~NotConnected /\ ~Head(timers).isLoading)
       => StartsOneTurn(Head(timers).query)]_vars

C10_Witness ==
  /\ lastOp.op = "retryFire"
  /\ lastOp.event = "accepted"
  /\ ~lastOp.loading
  /\ Len(sent) = 2
  /\ sent[2].message = lastOp.q
  /\ messages[Len(messages)].content = lastOp.q

(***************************************************************************)
(* C11: a retry click removes from the message list only the error message *)
(* it was triggered on; every other message, user or assistant, stays.     *)
(***************************************************************************)
\* the list without its i-th element
RemoveAt(list, i) == SubSeq(list, 1, i - 1) \o SubSeq(list, i + 1, Len(list))

C11_RetryRemovesOnlyItsMessage ==
  [][lastOp'.op = "retryClick" =>
       \E i \in 1..Len(messages) :
         /\ RetryButtonShown(messages[i])
         /\ messages[i].userQuery = lastOp'.q
         /\ messages' = RemoveAt(messages, i)]_vars

(***************************************************************************)
(* C12: a retry triggered while the connection is not open, or while a     *)
(* turn is loading, leaves the message list unchanged and sends nothing,   *)
(* and so does its delayed resubmission when it finds no open connection.  *)
(***************************************************************************)
C12_RetryNeedsOpenConnection ==
  [][/\ (lastOp'.op = "retryClick" /\ (NotConnected \/ isLoading))
          => (messages' = messages /\ sent' = sent)
     /\ (RetryFireStep /\ NotConnected)
          => (messages' = messages /\ sent' = sent)]_vars

(***************************************************************************)
(* C13: a submit (handleSubmit of the prompt text) while the handle is     *)
(* absent or its socket is not open sends nothing, arms no timer that      *)
(* would send later, and leaves the message list, the drafts and the       *)
(* loading flag unchanged; when the text is a query (not blank, no turn    *)
(* loading) it takes the branch that reports "not connected".  A payload   *)
(* is only ever sent by the handleSubmit that accepted it.                 *)
(***************************************************************************)
C13_SubmitWhileNotConnected ==
  [][/\ (lastOp'.op = "submit" /\ (wsRef = 0 \/ sockets[wsRef].readyState # "OPEN")) =>
          /\ sent' = sent
          /\ timers' = timers
          /\ sockets' = sockets
          /\ messages' = messages
          /\ streamingMessage' = streamingMessage
          /\ streamingReasoning' = streamingReasoning
          /\ isLoading' = isLoading
          /\ (Trim(inputValue) # <<>> /\ ~isLoading) => lastOp'.event = "notConnected"
     /\ sent' # sent =>
          /\ lastOp'.op \in {"submit", "retryFire"}
          /\ lastOp'.event = "accepted"
          /\ sockets[wsRef].readyState = "OPEN"]_vars

\* a query is refused after the socket of an earlier turn has closed
C13_Witness ==
  /\ lastOp.op = "submit"
  /\ lastOp.event = "notConnected"
  /\ lastOp.q = <<"h", "i">>
  /\ wsRef = 0
  /\ Len(messages) = 2
  /\ Len(sent) = 1

(***************************************************************************)
(* C14: turns are sequential: a payload is sent on the connection only     *)
(* when no earlier turn of it is still awaiting its [DONE] or [ERROR],     *)
(* whatever the interleaving of submits, retries and frames.               *)
(***************************************************************************)
\* the turn whose handler is installed on socket s has not terminated
InFlightOn(s) ==
  /\ s # 0
  /\ sockets[s].onmessage # NoHandler
  /\ FramesOf(HandlerOf(s).log, "StreamComplete") = <<>>
  /\ FramesOf(HandlerOf(s).log, "StreamError") = <<>>

C14_TurnsSequential ==
  [][Len(sent') > Len(sent) => ~InFlightOn(wsRef)]_vars

(***************************************************************************)
(* C15: a reset of a session whose handle is an open socket calls close()  *)
(* on that socket, which from then on can only become closed, and leaves   *)
(* the message list, the streaming draft and the reasoning draft empty,    *)
(* with or without a turn in flight; the reconnection that completes the   *)
(* reset installs a socket that did not exist before.                      *)
(***************************************************************************)
\* close() has been called on socket s, or s is closed
Closed(s) == sockets[s].readyState \in {"CLOSING", "CLOSED"}

C15_ResetOfOpenConnection ==
  [][/\ (lastOp'.op = "reset" /\ wsRef # 0 /\ sockets[wsRef].readyState = "OPEN") =>
          /\ sockets'[wsRef].readyState = "CLOSING"
          /\ wsRef' # wsRef
          /\ messages' = <<>>
          /\ streamingMessage' = <<>>
          /\ streamingReasoning' = <<>>
     /\ lastOp'.op = "resetFire" =>
          /\ wsRef' \notin SocketIds
          /\ wsRef' \in 1..Len(sockets')
          /\ sockets'[wsRef'].readyState = "CONNECTING"
          /\ \A s \in SocketIds : sockets'[s] = sockets[s]
     /\ \A s \in SocketIds :
          /\ Closed(s) => (sockets'[s].readyState \in {"CLOSING", "CLOSED"}
                             /\ sockets'[s].onmessage = sockets[s].onmessage)
          /\ sockets[s].readyState = "CLOSED" => sockets'[s].readyState = "CLOSED"]_vars

\* a reset has just interrupted a turn that had a content draft
C15_Witness ==
  /\ lastOp.op = "reset"
  /\ messages = <<>>
  /\ wsRef = 0
  /\ \E s \in SocketIds :
       /\ sockets[s].readyState = "CLOSING"
       /\ InFlightOn(s)
       /\ FramesOf(HandlerOf(s).log, "ContentChunk") # <<>>

(***************************************************************************)
(* C16: at most one socket of the session is live (connecting or open) in  *)
(* every reachable state.                                                  *)
(***************************************************************************)
Live(s) == sockets[s].readyState \in {"CONNECTING", "OPEN"}

C16_AtMostOneLiveSocket == Cardinality({s \in SocketIds : Live(s)}) <= 1

(***************************************************************************)
(* C17: a close or error event of a socket turns the health flag off and   *)
(* creates no socket and arms no reconnection; a socket is created only by *)
(* the mount effect or by the reconnection of a reset, and a reconnection  *)
(* is armed only by Reset or by the end of the review flow.                *)
(***************************************************************************)
C17_NoAutomaticReconnect ==
  [][/\ lastOp'.op \in {"close", "error"} =>
          /\ ~wsConnected'
          /\ Len(sockets') = Len(sockets)
          /\ timers' = timers
     /\ Len(sockets') > Len(sockets) => lastOp'.op \in {"mount", "resetFire"}
     /\ lastOp'.op = "resetFire" => (timers # <<>> /\ Head(timers).kind = "reconnect")
     /\ Pending("reconnect")' > Pending("reconnect") => lastOp'.op \in {"reset", "skip"}]_vars

\* the socket of the mount effect was closed by the server and nothing
\* replaces it
C17_Witness ==
  /\ lastOp.op = "close"
  /\ ~showReviewModal
  /\ ~wsConnected
  /\ wsRef = 0
  /\ timers = <<>>
  /\ Len(sockets) = 1
  /\ sockets[1].readyState = "CLOSED"

(***************************************************************************)
(* C18: reset is atomic: in a state where the session has been cleared and *)
(* the new connection is not yet created, no handler other than the        *)
(* completion of the reset runs.                                           *)
(***************************************************************************)
C18_NoHalfResetObservable ==
  [][Pending("reconnect") > 0 => lastOp'.op = "resetFire"]_vars

(***************************************************************************)
(* C19: Exit opens the review dialog and calls close() on the connection   *)
(* if it is open; every step that hides the dialog, and the timeout that   *)
(* follows a completed submission, performs handleResetSession; a          *)
(* completed submission always has that timeout pending.                   *)
(***************************************************************************)
\* the step has the effects of handleResetSession
ResetDone ==
  /\ messages' = <<>>
  /\ inputValue' = <<>>
  /\ ~isLoading'
  /\ streamingMessage' = <<>>
  /\ streamingReasoning' = <<>>
  /\ ~showReasoningBox'
  /\ currentSessionId' = Null
  /\ ~wsConnected'
  /\ wsRef' = 0
  /\ Len(timers') = Len(timers) + 1
  /\ timers'[Len(timers')].kind = "reconnect"
  /\ (wsRef # 0 /\ sockets[wsRef].readyState = "OPEN") => sockets'[wsRef].readyState = "CLOSING"

C20_FieldsIndependent ==
  \A i \in 1..Len(reviewLog) :
    /\ "publishreview" \in reviewLog[i].posts <=> Trim(reviewLog[i].review) # <<>>
    /\ "update-like-session" \in reviewLog[i].posts <=> reviewLog[i].sessionLike # "null"


(***************************************************************************)
(* C28: at most one message shows the feedback controls, and only the most *)
(* recent assistant message of the list while no turn is streaming: never  *)
(* a user message, an earlier assistant message, the streaming draft, an   *)
(* error message or a message without a session id.                        *)
(***************************************************************************)
\* the isLastMessage prop ChatInterface passes to the i-th message of the list
IsLastMessage(i) == i = Len(messages) /\ messages[i].role = "assistant"

\* the messages of the list that show the feedback controls
FeedbackTargets ==
  {i \in 1..Len(messages) : FeedbackControlsShown(messages[i], IsLastMessage(i), FALSE)}

\* the streaming draft is rendered with isStreaming and isLastMessage = false
DraftHasFeedback ==
  streamingMessage # <<>> /\ FeedbackControlsShown(streamingMessage[1], FALSE, TRUE)

C28_OneFeedbackTarget ==
  /\ Cardinality(FeedbackTargets) <= 1
  /\ ~DraftHasFeedback
  /\ \A i \in FeedbackTargets :
       /\ i = Len(messages)
       /\ messages[i].role = "assistant"
       /\ ~IsError(messages[i])
       /\ messages[i].sessionId \notin {Undefined, <<>>}
       /\ ~isLoading
       /\ streamingMessage = <<>>

(***************************************************************************)
(* C29: a [METADATA], [SCRATCHPAD] or [TOOLRESPONSE] frame whose payload   *)
(* is not valid JSON changes nothing: every accumulator, the side channel  *)
(* of the frame included, keeps its value, the drafts, the message list    *)
(* and the session id stay as they were and the turn stays in flight.      *)
(***************************************************************************)
\* the length of the tag of each JSON channel
JsonOffset ==
  [MetadataReceived |-> 10, ScratchpadReceived |-> 12, ToolResponseReceived |-> 14]

\* the frame belongs to a JSON channel and its payload does not parse
InvalidJson(frame) ==
  /\ ExpectedEvent(frame) \in DOMAIN JsonOffset
  /\ ~JSONParse(SubSeq(frame, JsonOffset[ExpectedEvent(frame)] + 1, Len(frame))).ok

C29_InvalidJsonChangesNothing ==
  [][(lastOp'.op = "frame" /\ InvalidJson(lastOp'.frame)) =>
       /\ sockets'[lastOp'.sock].onmessage[1]
            = [HandlerOf(lastOp'.sock) EXCEPT !.log = Append(@, lastOp'.frame)]
       /\ \A s \in SocketIds \ {lastOp'.sock} : sockets'[s] = sockets[s]
       /\ UNCHANGED uiVars]_vars

\* a payload that does not parse has followed one that did, in a turn that
\* is still loading
C29_Witness ==
  /\ FrameDone("MetadataReceived")
  /\ InvalidJson(lastOp.frame)
  /\ HandlerOf(lastOp.sock).metadata = [t |-> "number", v |-> <<"1">>]
  /\ isLoading

(***************************************************************************)
(* C30: decoding is deterministic: after every prefix of its frames the    *)
(* accumulators of a turn are a function of that prefix alone, so two      *)
(* turns fed the same frames from fresh accumulators hold the same         *)
(* content, reasoning, session id, metadata, scratchpad and tool response. *)
(***************************************************************************)
\* the position of the last frame of a log that decodes to event, 0 if none
LastIndexOf(log, event) ==
  LET hits == {i \in 1..Len(log) : ExpectedEvent(log[i]) = event}
  IN IF hits = {} THEN 0 ELSE CHOOSE i \in hits : \A j \in hits : j <= i

\* the content a log stands for: the content frames in order, restarted by
\* the text of the last [ERROR]
ContentOf(log) ==
  LET k == LastIndexOf(log, "StreamError")
  IN IF k = 0 THEN Concat(FramesOf(log, "ContentChunk"))
     ELSE ErrorPrefix \o SubSeq(log[k], 8, Len(log[k]))
            \o Concat(FramesOf(SubSeq(log, k + 1, Len(log)), "ContentChunk"))

\* the accumulators a log stands for
Replay(log) ==
  [ fullResponse |-> ContentOf(log),
    fullReasoning |-> Concat(Payloads(FramesOf(log, "ReasoningChunk"), 11)),
    sessionId |-> LastOr(Payloads(FramesOf(log, "SessionIdReceived"), 12), <<>>),
    metadata |-> LastOr(ParsedValues(log, "MetadataReceived", 10), JsNull),
    scratchpad |-> LastOr(ParsedValues(log, "ScratchpadReceived", 12), JsNull),
    toolResponse |-> LastOr(ParsedValues(log, "ToolResponseReceived", 14), JsNull) ]

\* the accumulators of a closure
Accumulators(h) ==
  [ fullResponse |-> h.fullResponse, fullReasoning |-> h.fullReasoning,
    sessionId |-> h.sessionId, metadata |-> h.metadata,
    scratchpad |-> h.scratchpad, toolResponse |-> h.toolResponse ]

C30_DecodingDeterministic ==
  \A s \in SocketIds :
    sockets[s].onmessage # NoHandler => Accumulators(HandlerOf(s)) = Replay(HandlerOf(s).log)

\* a second turn has been fed the frame the first turn was fed and holds the
\* content the first turn held
C30_Witness ==
  /\ Len(messages) = 3
  /\ messages[2].content = <<"a">>
  /\ TurnOpen
  /\ HandlerOf(turnSock).log = << <<"a">> >>
  /\ HandlerOf(turnSock).fullResponse = messages[2].content


(***************************************************************************)
(* C21: when the organization fetch of a verified token returns zero       *)
(* organizations, organization, workspace and project are all the empty    *)
(* selection once the effects of that result have run, the warning of the  *)
(* organization level is on and those of the workspace and project levels  *)
(* are off.                                                                *)
(***************************************************************************)
\* the handler that ran last answered the fetch url with outcome
Answer(url, outcome) == lastOp.op = url /\ lastOp.event = outcome

C21_ZeroOrganizations ==
  [][(lastOp'.op = "organizations" /\ lastOp'.event = "empty") =>
       /\ organization' = ""
       /\ workspace' = ""
       /\ project' = ""
       /\ organizations' = <<>>
       /\ showOrgWarning'
       /\ ~showWorkspaceWarning'
       /\ ~showProjectWarning']_vars

(***************************************************************************)
(* C22: the chat becomes available (Home renders ChatInterface) whenever   *)
(* the scope chain has been resolved with an empty level, in particular    *)
(* after the organization fetch of a verified token returned zero          *)
(* organizations and organization, workspace and project are all empty.    *)
(***************************************************************************)
C22_ChatAvailableWithEmptyScope ==
  (SetupComplete /\ ~isVerifying /\ requests = EmptyBag) => AllDetailsFilled

(***************************************************************************)
(* C23: when a fetch returns zero items or fails, every deeper level has   *)
(* fetched = true and an empty candidate list once the effects of that     *)
(* result have run.                                                        *)
(***************************************************************************)
C23_ShortCircuitResolved ==
  [][/\ (lastOp'.op = "organizations" /\ lastOp'.event \in {"empty", "failed"}) =>
          /\ workspacesFetched'
          /\ projectsFetched'
          /\ workspaces' = <<>>
          /\ projects' = <<>>
     /\ (lastOp'.op = "workspaces" /\ lastOp'.event \in {"empty", "failed"}) =>
          /\ projectsFetched'
          /\ projects' = <<>>]_vars

(***************************************************************************)
(* C24: picking the sentinel at a level clears all deeper levels: after    *)
(* the sentinel organization no workspace and no project is selected and   *)
(* their candidate lists are empty; after the sentinel workspace no        *)
(* project is selected and its candidate list is empty.                    *)
(***************************************************************************)
C24_SentinelClearsDeeper ==
  [][/\ (lastOp'.op = "selectOrganization" /\ lastOp'.event = Sentinel) =>
          /\ ~Real(workspace')
          /\ ~Real(project')
          /\ workspaces' = <<>>
          /\ projects' = <<>>
     /\ (lastOp'.op = "selectWorkspace" /\ lastOp'.event = Sentinel) =>
          /\ ~Real(project')
          /\ projects' = <<>>]_vars

(***************************************************************************)
(* C25: in every reachable state a real workspace selection implies a real *)
(* organization selection and a real project selection implies a real      *)
(* workspace selection.                                                    *)
(***************************************************************************)
C25_SelectionsNested ==
  /\ Real(workspace) => Real(organization)
  /\ Real(project) => Real(workspace)

(***************************************************************************)
(* C26: token verification is debounced by cancel-and-replace: at most one *)
(* timeout is pending, every change of the token cancels the pending       *)
(* timeout and arms at most the one of the new value, a verification is    *)
(* requested only by the timeout of the current token, and nothing but a   *)
(* change of the token arms a timeout, so a failed verification is not     *)
(* retried.                                                                *)
(***************************************************************************)
\* the verification requests of a bag of fetches
VerifyRequests(bag) == {q \in BagToSet(bag) : q.url = "verify-token"}

\* the number of verification requests waiting in a bag of fetches
VerifyCount(bag) ==
  LET qs == VerifyRequests(bag)
      RECURSIVE Sum(_)
      Sum(set) == IF set = {} THEN 0
                  ELSE LET q == CHOOSE x \in set : TRUE
                       IN CopiesIn(q, bag) + Sum(set \ {q})
  IN Sum(qs)

C26_DebounceCancelAndReplace ==
  [][/\ Cardinality(pendingTimers') <= 1
     /\ token' # token =>
          /\ pendingTimers' \cap pendingTimers = {}
          /\ \A t \in pendingTimers' : t.token = token'
          /\ VerifyCount(requests') = VerifyCount(requests)
     /\ token' = token => pendingTimers' \subseteq pendingTimers
     /\ VerifyCount(requests') > VerifyCount(requests) =>
          /\ token' = token
          /\ VerifyCount(requests') = VerifyCount(requests) + 1
          /\ \E t \in pendingTimers :
               /\ t.token = token
               /\ pendingTimers' = pendingTimers \ {t}
               /\ CopiesIn([url |-> "verify-token", token |-> token,
                            organization |-> "", workspace |-> ""], requests') > 0]_vars

\* the verification of a second value of the token has failed and nothing
\* is armed or waiting that would verify it again
C26_Witness ==
  /\ lastOp.op = "verifyResponse"
  /\ lastOp.event = "networkFailure"
  /\ armed = 2
  /\ token # ""
  /\ ~verified
  /\ pendingTimers = {}
  /\ requests = EmptyBag

(***************************************************************************)
(* C27: for the lifetime of a chat session every payload carries the       *)
(* token, organization, workspace and project ChatInterface was            *)
(* constructed with, whatever is done in the scope panel meanwhile.        *)
(***************************************************************************)
C27_ContextImmutable ==
  \A i \in 1..Len(sent) : sent[i].details = sessionDetails

(***************************************************************************)
(* C31: when the socket of a turn in flight has closed or failed, the      *)
(* close or error event changes nothing of the chat state, and from then   *)
(* on the session stays loading and sends nothing until a reset (the Reset *)
(* button or the end of the review dialog) clears it.                      *)
(***************************************************************************)
\* the socket of the turn in flight is closed and the session is loading
TurnCutOff ==
  /\ InFlightOn(turnSock)
  /\ isLoading
  /\ sockets[turnSock].readyState = "CLOSED"

C31_CutOffTurnStaysLoading ==
  [][/\ lastOp'.op \in {"close", "error"} => UNCHANGED uiVars
     /\ TurnCutOff =>
          /\ Len(sent') = Len(sent)
          /\ isLoading' \/ lastOp'.op \in {"reset", "skip", "closeFire"}]_vars

(***************************************************************************)
(* C32: a [METADATA], [SCRATCHPAD], [TOOLRESPONSE] or [SESSION_ID] frame   *)
(* of a turn in flight changes only the accumulators of the turn: the      *)
(* message list, the streaming draft and the session-level state           *)
(* (loading, reasoning display, current session id) stay as they were.     *)
(***************************************************************************)
SideChannelEvents ==
  {"MetadataReceived", "ScratchpadReceived", "ToolResponseReceived", "SessionIdReceived"}

C32_SideChannelsNotSurfaced ==
  [][(/\ lastOp'.op = "frame"
      /\ lastOp'.event \in SideChannelEvents
      /\ InFlightOn(lastOp'.sock)) => UNCHANGED uiVars]_vars

(***************************************************************************)
(* C33: after every content frame of a turn in flight the streaming draft  *)
(* holds the concatenation of the content frames of the turn so far, the   *)
(* reasoning accumulated so far and the id of the turn; no frame changes   *)
(* the id of the turn, and the message appended on [DONE] carries it.      *)
(***************************************************************************)
C33_DraftFollowsContent ==
  [][lastOp'.op = "frame" =>
       LET s == lastOp'.sock
           h == sockets'[s].onmessage[1]
       IN /\ h.assistantMessageId = HandlerOf(s).assistantMessageId
          /\ (lastOp'.event = "ContentChunk" /\ InFlightOn(s)) =>
               /\ streamingMessage' # <<>>
               /\ streamingMessage'[1].content = Concat(FramesOf(h.log, "ContentChunk"))
               /\ streamingMessage'[1].reasoning
                    = Concat(Payloads(FramesOf(h.log, "ReasoningChunk"), 11))
               /\ streamingMessage'[1].id = h.assistantMessageId
          /\ (lastOp'.event = "StreamComplete" /\ InFlightOn(s)) =>
               /\ messages' = Append(messages, messages'[Len(messages')])
               /\ messages'[Len(messages')].id = h.assistantMessageId]_vars

\* the second content frame of a turn that has reasoned has been handled
C33_Witness ==
  /\ FrameDone("ContentChunk")
  /\ isLoading
  /\ InFlightOn(lastOp.sock)
  /\ streamingMessage # <<>>
  /\ streamingMessage[1].content = <<"a", "a">>
  /\ streamingMessage[1].reasoning = <<"r">>
  /\ streamingMessage[1].id = HandlerOf(lastOp.sock).assistantMessageId

(***************************************************************************)
(* C34: the close or error event of a socket that is not the current       *)
(* handle leaves the handle and the health flag as they were.              *)
(***************************************************************************)
C34_LateCloseLeavesSuccessor ==
  [][\A s \in SocketIds :
       (/\ sockets[s].readyState # "CLOSED"
        /\ sockets'[s].readyState = "CLOSED"
        /\ wsRef # 0
        /\ wsRef # s) => (wsRef' = wsRef /\ wsConnected' = wsConnected)]_vars

(***************************************************************************)
(* C35: whenever the chat is available (Home renders ChatInterface, which  *)
(* requires verified), the current token is the one of the most recent     *)
(* verification that succeeded.                                            *)
(***************************************************************************)
C35_VerifiedIsCurrentToken == AllDetailsFilled => token = verifiedToken

(***************************************************************************)
(* C36: a response that leaves no scope fetch in flight and answers a      *)
(* workspaces request made for another organization than the selected one  *)
(* leaves the workspace candidate list as it was, and one that answers a   *)
(* projects request made for another (organization, workspace) leaves the  *)
(* project candidate list as it was.                                       *)
(***************************************************************************)
\* the step answers the waiting fetch q
AnswersFetch(q) == CopiesIn(q, requests') < CopiesIn(q, requests)

C36_NoLateOverwrite ==
  [][\A q \in InFlight :
       (AnswersFetch(q) /\ requests' = EmptyBag) =>
         /\ (q.url = "workspaces" /\ q.organization # organization)
              => workspaces' = workspaces
         /\ (q.url = "projects"
               /\ <<q.organization, q.workspace>> # <<organization, workspace>>)
              => projects' = projects]_vars

(***************************************************************************)
(* C37: while no scope fetch is in flight, a real workspace selection is   *)
(* an item of the workspace candidate list and a real project selection is *)
(* an item of the project candidate list.                                  *)
(***************************************************************************)
C37_SelectionsAreCandidates ==
  requests = EmptyBag =>
    /\ Real(workspace) => workspace \in Items(workspaces)
    /\ Real(project) => project \in Items(projects)

(***************************************************************************)
(* C38: the review dialog resets the session only while it is shown: once  *)
(* a dismissal or the timeout of a submission has closed it, neither of    *)
(* them performs handleResetSession again.                                 *)
(***************************************************************************)
C38_OneResetPerExit ==
  [][(/\ lastOp'.op \in {"skip", "closeFire"}
      /\ Pending("reconnect")' > Pending("reconnect")) => showReviewModal]_vars

(***************************************************************************)
(* C39: in every reachable state the reasoning indicator is on only while  *)
(* the reasoning display is visible, the display is visible only while a   *)
(* turn is loading, and a streaming draft that is no error exists only     *)
(* while a turn is loading.                                                *)
(***************************************************************************)
C39_FlagsConsistent ==
  /\ isReasoningActive => showReasoningBox
  /\ showReasoningBox => isLoading
  /\ (streamingMessage # <<>> /\ ~IsError(streamingMessage[1])) => isLoading

====
